---- MODULE Spec2Model ----
(***************************************************************************)
(* Model of the macronutrient API (main.go): the POST /v1/calculate-macros *)
(* handler calculateMacros, the per-item pipeline processFoodVolume,       *)
(* the store lookup getFoodData and the scaling calculateMacrosForGrams.   *)
(*                                                                         *)
(* float64 values are modelled as exact rationals [n, d] in lowest terms   *)
(* (d > 0), so that products and quotients are compared exactly; IEEE      *)
(* rounding is outside the model.  Portion descriptions are sequences of   *)
(* one-character strings so that strings.Contains is a real substring      *)
(* search.  The Couchbase cluster is the environment: every Query call     *)
(* returns an error, no row, an undecodable row or one decodable document. *)
(***************************************************************************)
EXTENDS Integers, Sequences, FiniteSets, TLC

VARIABLES
    request,    \* request.Data.Volumes, the batch being served
    bindErr,    \* TRUE iff c.ShouldBindJSON fails on the body
    pc,         \* position of the handler: bind, loop, query2, done
    i,          \* index of the item the range loop is at (1-based)
    response,   \* response.Data
    status,     \* HTTP status written by c.JSON (0 = nothing written yet)
    queries,    \* history: db.cluster.Query calls issued for each item
    errs,       \* history: error returned by getFoodData for each item
    fetched,    \* history: *FoodData returned by getFoodData (<<>> = nil)
    source      \* history: branch that last assigned cupGrams for each item

vars == <<request, bindErr, pc, i, response, status, queries, errs, fetched, source>>

----------------------------------------------------------------------------
(* Bounds of the model *)

MaxBatch == 2
MaxPortions == 2
MaxNutrients == 2

----------------------------------------------------------------------------
(* float64 as exact rationals *)

Abs(x) == IF x < 0 THEN -x ELSE x

RECURSIVE GCD(_, _)
GCD(a, b) == IF b = 0 THEN a ELSE GCD(b, a % b)

Rat(n, d) ==
    LET g == GCD(Abs(n), d)
    IN  [n |-> (IF n < 0 THEN -(Abs(n) \div g) ELSE n \div g), d |-> d \div g]

Zero == Rat(0, 1)
Hundred == Rat(100, 1)

FMul(a, b) == Rat(a.n * b.n, a.d * b.d)

\* a / b for b > 0 (the only divisor in the program is 100.0)
FDiv(a, b) == Rat(a.n * b.d, a.d * b.n)

----------------------------------------------------------------------------
(* Text *)

Contains(s, substr) ==
    \E k \in 0..(Len(s) - Len(substr)) :
        SubSeq(s, k + 1, k + Len(substr)) = substr

OneCup == <<"1", " ", "c", "u", "p">>
OneCupSliced == <<"1", " ", "c", "u", "p", ",", " ", "s", "l", "i", "c", "e", "d">>
OneEgg == <<"1", " ", "e", "g", "g">>
OneEggLarge == <<"1", " ", "e", "g", "g", ",", " ", "l", "a", "r", "g", "e">>

----------------------------------------------------------------------------
(* Data *)

Portion(desc, grams) == [PortionDescription |-> desc, GramWeight |-> grams]

Nutrient(number, amount) == [Number |-> number, Amount |-> amount]

FoodData(portions, nutrients) ==
    [FoodPortions |-> portions, FoodNutrients |-> nutrients]

Volume(name, cups) == [ObjectName |-> name, VolumeCups |-> cups]

ZeroMacros == [Calories |-> Zero, Carbs |-> Zero, Fat |-> Zero, Protein |-> Zero]

SeqsUpTo(S, n) == UNION {[1..k -> S] : k \in 0..n}

ObjectNames == {"egg", "rice", "banana", "tofu"}

VolumeCupsValues == {Rat(-1, 1), Zero, Rat(3, 2), Rat(2, 1)}

Volumes == {Volume(o, v) : o \in ObjectNames, v \in VolumeCupsValues}

PortionPool ==
    { Portion(OneCup, Rat(158, 1)),
      Portion(OneCupSliced, Rat(150, 1)),
      Portion(OneCup, Zero),
      Portion(OneEgg, Rat(50, 1)),
      Portion(OneEgg, Zero),
      Portion(OneEggLarge, Rat(56, 1)) }

NutrientPool ==
    { Nutrient("208", Rat(89, 1)),
      Nutrient("208", Rat(155, 1)),
      Nutrient("203", Rat(13, 1)),
      Nutrient("204", Rat(11, 1)),
      Nutrient("205", Rat(11, 10)),
      Nutrient("301", Rat(5, 1)) }

\* every document the store may hold, within the bounds
AllDocs ==
    { FoodData(p, n) : p \in SeqsUpTo(PortionPool, MaxPortions),
                       n \in SeqsUpTo(NutrientPool, MaxNutrients) }

\* a few documents for the batch runs
EggDoc ==
    FoodData(<<Portion(OneEgg, Rat(50, 1))>>,
             <<Nutrient("208", Rat(155, 1)), Nutrient("203", Rat(13, 1)),
               Nutrient("204", Rat(11, 1)), Nutrient("205", Rat(11, 10))>>)

BananaDoc ==
    FoodData(<<Portion(OneCupSliced, Rat(150, 1))>>, <<Nutrient("208", Rat(89, 1))>>)

NoCupDoc ==
    FoodData(<<Portion(OneEggLarge, Rat(56, 1))>>, <<Nutrient("208", Rat(155, 1))>>)

SampleDocs == {EggDoc, BananaDoc, NoCupDoc}

\* var food FoodData before result.Row has filled it
EmptyDoc == FoodData(<<>>, <<>>)

\* outcomes of one db.cluster.Query call: an error, or a result of at most
\* one row (LIMIT 1) that result.Row can or cannot decode
QueryResults(Docs) ==
    {[err |-> TRUE, rows |-> <<>>]} \cup
    {[err |-> FALSE, rows |-> r] :
        r \in {<<>>, <<[decodes |-> FALSE, doc |-> EmptyDoc]>>}
                 \cup {<<[decodes |-> TRUE, doc |-> d]>> : d \in Docs}}

----------------------------------------------------------------------------
(* getFoodData: the closed switch on objectName *)

\* variant: the default case falls through and searches for the raw name
searchTermAnyName(objectName) ==
    CASE objectName = "egg" -> <<"Egg, whole, boiled or poached">>
      [] objectName = "rice" -> <<"Rice, cooked, NFS">>
      [] objectName = "banana" -> <<"Banana, raw">>
      [] OTHER -> <<objectName>>

searchTerm(objectName) ==
    CASE objectName = "egg" -> <<"Egg, whole, boiled or poached">>
      [] objectName = "rice" -> <<"Rice, cooked, NFS">>
      [] objectName = "banana" -> <<"Banana, raw">>
      [] OTHER -> <<>>

----------------------------------------------------------------------------
(* processFoodVolume *)

\* variant: the failure literal also fills in a weight
NotFoundWithWeight(volume) ==
    [Found |-> FALSE, Macros |-> ZeroMacros,
     RequestedFood |-> volume.ObjectName,
     RequestedVolume |-> volume.VolumeCups,
     CalculatedWeight |-> volume.VolumeCups]

NotFound(volume) ==
    [Found |-> FALSE, Macros |-> ZeroMacros,
     RequestedFood |-> volume.ObjectName,
     RequestedVolume |-> volume.VolumeCups,
     CalculatedWeight |-> Zero]

MinOf(S) == CHOOSE x \in S : \A y \in S : x <= y

\* first loop: cupGrams after scanning for a description containing "1 cup"
cupScan(portions) ==
    LET hits == {k \in 1..Len(portions) :
                    Contains(portions[k].PortionDescription, OneCup)}
    IN  IF hits = {} THEN Zero ELSE portions[MinOf(hits)].GramWeight

\* second loop: cupGrams after scanning for a description equal to "1 egg"
eggScan(portions, cupGrams) ==
    LET hits == {k \in 1..Len(portions) : portions[k].PortionDescription = OneEgg}
    IN  IF hits = {} THEN cupGrams
        ELSE FMul(portions[MinOf(hits)].GramWeight, Rat(9, 2))

cupGramsOf(objectName, portions) ==
    LET c == cupScan(portions)
    IN  IF c = Zero /\ objectName = "egg" THEN eggScan(portions, c) ELSE c

\* which assignment produced the final cupGrams
sourceOf(objectName, portions) ==
    LET c == cupScan(portions)
    IN  IF c # Zero THEN "cup"
        ELSE IF objectName = "egg"
                /\ \E k \in 1..Len(portions) : portions[k].PortionDescription = OneEgg
             THEN "egg"
        ELSE IF \E k \in 1..Len(portions) :
                    Contains(portions[k].PortionDescription, OneCup)
             THEN "cup"
        ELSE "none"

RECURSIVE scaleFrom(_, _, _, _)
scaleFrom(nutrients, k, ratio, macros) ==
    IF k > Len(nutrients) THEN macros
    ELSE LET nutrient == nutrients[k]
             scaled == FMul(nutrient.Amount, ratio)
             next == CASE nutrient.Number = "208" -> [macros EXCEPT !.Calories = scaled]
                       [] nutrient.Number = "203" -> [macros EXCEPT !.Protein = scaled]
                       [] nutrient.Number = "204" -> [macros EXCEPT !.Fat = scaled]
                       [] nutrient.Number = "205" -> [macros EXCEPT !.Carbs = scaled]
                       [] OTHER -> macros
         IN  scaleFrom(nutrients, k + 1, ratio, next)

Reverse(s) == [k \in 1..Len(s) |-> s[Len(s) + 1 - k]]

\* variant: the ratio is not taken per 100g
calculateMacrosForGramsPerGram(nutrients, calculatedGrams) ==
    scaleFrom(nutrients, 1, calculatedGrams, ZeroMacros)

\* variant: the first entry of a repeated nutrient number wins
calculateMacrosForGramsFirstWins(nutrients, calculatedGrams) ==
    scaleFrom(Reverse(nutrients), 1, FDiv(calculatedGrams, Hundred), ZeroMacros)

calculateMacrosForGrams(nutrients, calculatedGrams) ==
    scaleFrom(nutrients, 1, FDiv(calculatedGrams, Hundred), ZeroMacros)

\* variant: a zero volume is rejected like a missing conversion
processFoodVolumeRejectZero(volume, foodData) ==
    LET cupGrams == cupGramsOf(volume.ObjectName, foodData.FoodPortions)
        calculatedGrams == FMul(volume.VolumeCups, cupGrams)
    IN  IF cupGrams = Zero \/ calculatedGrams = Zero THEN NotFound(volume)
        ELSE [Found |-> TRUE,
              Macros |-> calculateMacrosForGrams(foodData.FoodNutrients, calculatedGrams),
              RequestedFood |-> volume.ObjectName,
              RequestedVolume |-> volume.VolumeCups,
              CalculatedWeight |-> calculatedGrams]

\* processFoodVolume once getFoodData has returned a document
processFoodVolume(volume, foodData) ==
    LET cupGrams == cupGramsOf(volume.ObjectName, foodData.FoodPortions)
        calculatedGrams == FMul(volume.VolumeCups, cupGrams)
    IN  IF cupGrams = Zero THEN NotFound(volume)
        ELSE [Found |-> TRUE,
              Macros |-> calculateMacrosForGrams(foodData.FoodNutrients, calculatedGrams),
              RequestedFood |-> volume.ObjectName,
              RequestedVolume |-> volume.VolumeCups,
              CalculatedWeight |-> calculatedGrams]

----------------------------------------------------------------------------
(* calculateMacros: the handler *)

\* variant: only successful items are appended
EmitFoundOnly(data, macroData) ==
    IF macroData.Found THEN Append(data, macroData) ELSE data

Emit(data, macroData) == Append(data, macroData)

Current == request[i]

Init ==
    /\ bindErr \in BOOLEAN
    /\ request \in (IF bindErr THEN {<<>>} ELSE SeqsUpTo(Volumes, MaxBatch))
    /\ pc = "bind"
    /\ i = 1
    /\ response = <<>>
    /\ status = 0
    /\ queries = <<>>
    /\ errs = <<>>
    /\ fetched = <<>>
    /\ source = <<>>

InitItem ==
    /\ bindErr \in BOOLEAN
    /\ request \in (IF bindErr THEN {<<>>} ELSE SeqsUpTo(Volumes, 1))
    /\ pc = "bind"
    /\ i = 1
    /\ response = <<>>
    /\ status = 0
    /\ queries = <<>>
    /\ errs = <<>>
    /\ fetched = <<>>
    /\ source = <<>>

BadRequest ==
    /\ pc = "bind"
    /\ bindErr
    /\ status' = 400
    /\ pc' = "done"
    /\ UNCHANGED <<request, bindErr, i, response, queries, errs, fetched, source>>

BindJSON ==
    /\ pc = "bind"
    /\ ~bindErr
    /\ response' = <<>>
    /\ pc' = "loop"
    /\ UNCHANGED <<request, bindErr, i, status, queries, errs, fetched, source>>

\* getFoodData returns error e: processFoodVolume answers with the failure literal
Fail(e) ==
    /\ response' = Emit(response, NotFound(Current))
    /\ errs' = Append(errs, e)
    /\ fetched' = Append(fetched, <<>>)
    /\ source' = Append(source, "none")
    /\ i' = i + 1
    /\ pc' = "loop"

UnknownFood ==
    /\ pc = "loop"
    /\ i <= Len(request)
    /\ searchTerm(Current.ObjectName) = <<>>
    /\ queries' = Append(queries, 0)
    /\ Fail("unknown food")
    /\ UNCHANGED <<request, bindErr, status>>

\* the first Query call; whatever rows it returns are drained into rawResult
\* and dropped (a row that fails to scan is skipped), so only its error counts
FirstQuery ==
    /\ pc = "loop"
    /\ i <= Len(request)
    /\ searchTerm(Current.ObjectName) # <<>>
    /\ queries' = Append(queries, 1)
    /\ \E err \in BOOLEAN :
          \/ /\ err
             /\ Fail("query failed")
          \/ /\ ~err
             /\ pc' = "query2"
             /\ UNCHANGED <<i, response, errs, fetched, source>>
    /\ UNCHANGED <<request, bindErr, status>>

SecondQuery(Docs) ==
    /\ pc = "query2"
    /\ queries' = [queries EXCEPT ![Len(queries)] = 2]
    /\ \E res \in QueryResults(Docs) :
          \/ /\ res.err
             /\ Fail("query failed")
          \/ /\ ~res.err
             /\ res.rows = <<>>
             /\ Fail("no matching food found")
          \/ /\ ~res.err
             /\ res.rows # <<>>
             /\ ~res.rows[1].decodes
             /\ Fail("failed to decode food data")
          \/ /\ ~res.err
             /\ res.rows # <<>>
             /\ res.rows[1].decodes
             /\ LET food == res.rows[1].doc
                IN  /\ response' = Emit(response, processFoodVolume(Current, food))
                    /\ errs' = Append(errs, "")
                    /\ fetched' = Append(fetched, <<food>>)
                    /\ source' = Append(source,
                                        sourceOf(Current.ObjectName, food.FoodPortions))
             /\ i' = i + 1
             /\ pc' = "loop"
    /\ UNCHANGED <<request, bindErr, status>>

Respond ==
    /\ pc = "loop"
    /\ i > Len(request)
    /\ status' = 200
    /\ pc' = "done"
    /\ UNCHANGED <<request, bindErr, i, response, queries, errs, fetched, source>>

Next ==
    \/ BadRequest
    \/ BindJSON
    \/ UnknownFood
    \/ FirstQuery
    \/ SecondQuery(SampleDocs)
    \/ Respond

Spec == Init /\ [][Next]_vars

NextItem ==
    \/ BadRequest
    \/ BindJSON
    \/ UnknownFood
    \/ FirstQuery
    \/ SecondQuery(AllDocs)
    \/ Respond

SpecItem == InitItem /\ [][NextItem]_vars

TypeOK ==
    /\ pc \in {"bind", "loop", "query2", "done"}
    /\ status \in {0, 200, 400}
    /\ i \in 1..(Len(request) + 1)
    /\ Len(errs) = Len(response)
    /\ Len(fetched) = Len(response)
    /\ Len(source) = Len(response)
    /\ Len(queries) = Len(response) + (IF pc = "query2" THEN 1 ELSE 0)

----------------------------------------------------------------------------
(* Vocabulary of the properties *)

RecognizedNames == {"egg", "rice", "banana"}

Served == 1..Len(response)

Echoes(k) ==
    /\ response[k].RequestedFood = request[k].ObjectName
    /\ response[k].RequestedVolume = request[k].VolumeCups

CupIdx(portions) ==
    {k \in 1..Len(portions) : Contains(portions[k].PortionDescription, OneCup)}

EggIdx(portions) ==
    {k \in 1..Len(portions) : portions[k].PortionDescription = OneEgg}

MaxOf(S) == CHOOSE x \in S : \A y \in S : x >= y

TrackedCodes == {"208", "203", "204", "205"}

FieldOf(macros, code) ==
    CASE code = "208" -> macros.Calories
      [] code = "203" -> macros.Protein
      [] code = "204" -> macros.Fat
      [] code = "205" -> macros.Carbs

CodeIdx(nutrients, code) == {j \in 1..Len(nutrients) : nutrients[j].Number = code}

Per100(amount, grams) == FDiv(FMul(amount, grams), Hundred)

----------------------------------------------------------------------------
(* C1: the result list has one entry per input item, in input order, each  *)
(* echoing its item's object_name and volume_cups, whatever mix of failing *)
(* and successful items the batch holds; a 200 response carries exactly as *)
(* many results as the request has items.                                  *)
C1_SameLengthSameOrder ==
    /\ Len(response) = i - 1
    /\ \A k \in Served : Echoes(k)
    /\ (status = 200 => Len(response) = Len(request))

C1_Witness ==
    /\ status = 200
    /\ Len(request) >= 2
    /\ ~response[1].Found
    /\ response[2].Found

(* C2: an object name outside {egg, rice, banana} issues no store query    *)
(* and its result has found=false.                                         *)
C2_UnknownNoQuery ==
    \A k \in 1..Len(queries) :
        request[k].ObjectName \notin RecognizedNames =>
            /\ queries[k] = 0
            /\ k \in Served => (~response[k].Found /\ fetched[k] = <<>>)

C2_Witness ==
    \E k \in Served :
        /\ request[k].ObjectName = "tofu"
        /\ queries[k] = 0
        /\ ~response[k].Found

(* C3: a fetched record with a portion containing "1 cup" gives found=true *)
(* and calculated_weight = volume_cups * gram_weight of the first such     *)
(* portion, for every gram_weight that portion carries.                    *)
C3_FirstCupPortion ==
    \A k \in Served :
        (fetched[k] # <<>> /\ CupIdx(fetched[k][1].FoodPortions) # {}) =>
            LET portions == fetched[k][1].FoodPortions
                first == portions[MinOf(CupIdx(portions))]
            IN  /\ response[k].Found
                /\ response[k].CalculatedWeight =
                       FMul(request[k].VolumeCups, first.GramWeight)

(* C4: whenever cup_grams is taken from a "1 egg" portion, the record has  *)
(* no portion containing "1 cup" and the object name is "egg".             *)
C4_EggFallbackOnlyWithoutCup ==
    \A k \in Served :
        source[k] = "egg" =>
            /\ request[k].ObjectName = "egg"
            /\ CupIdx(fetched[k][1].FoodPortions) = {}

(* C5: for "egg" and a record with no "1 cup" portion but a portion equal  *)
(* to "1 egg" of weight W, found=true and calculated_weight =              *)
(* volume_cups * 4.5 * W for the first such portion; a portion that only   *)
(* contains "1 egg" does not trigger the fallback.                         *)
C5_EggFallbackWeight ==
    \A k \in Served :
        (fetched[k] # <<>> /\ request[k].ObjectName = "egg"
            /\ CupIdx(fetched[k][1].FoodPortions) = {}) =>
            LET portions == fetched[k][1].FoodPortions
            IN  IF EggIdx(portions) = {} THEN ~response[k].Found
                ELSE /\ response[k].Found
                     /\ response[k].CalculatedWeight =
                            FMul(FMul(request[k].VolumeCups, Rat(9, 2)),
                                 portions[MinOf(EggIdx(portions))].GramWeight)

(* C6: every failure kind (unknown food, no matching record, query or      *)
(* decode error, no usable conversion) gives found=false with the input    *)
(* echoed and zero weight and macros; weight and macros are non-zero only  *)
(* in results with found=true.                                             *)
C6_FailuresCollapse ==
    \A k \in Served :
        LET failed ==
                \/ errs[k] # ""
                \/ fetched[k] = <<>>
                \/ cupGramsOf(request[k].ObjectName, fetched[k][1].FoodPortions) = Zero
        IN  /\ errs[k] \in {"", "unknown food", "query failed",
                            "failed to decode food data", "no matching food found"}
            /\ failed => ~response[k].Found
            /\ ~response[k].Found =>
                  /\ Echoes(k)
                  /\ response[k].CalculatedWeight = Zero
                  /\ response[k].Macros = ZeroMacros

C6_Witness ==
    /\ Len(response) >= 2
    /\ errs[1] = "query failed"
    /\ request[1].VolumeCups # Zero
    /\ errs[2] = ""
    /\ fetched[2] # <<>>
    /\ ~response[2].Found

(* C7: a recognized item issues exactly one store query.                   *)
C7_OneQueryPerItem ==
    \A k \in Served :
        request[k].ObjectName \in RecognizedNames => queries[k] = 1

(* C8: the found flag does not depend on volume_cups (it is decided by the *)
(* resolved cup_grams alone, for zero and negative volumes too), and a     *)
(* zero volume with a non-zero cup_grams gives found=true with zero weight *)
(* and zero macros.                                                        *)
C8_VolumeNeverRejected ==
    \A k \in Served :
        fetched[k] # <<>> =>
            LET food == fetched[k][1]
                name == request[k].ObjectName
            IN  /\ response[k].Found <=> cupGramsOf(name, food.FoodPortions) # Zero
                /\ (request[k].VolumeCups = Zero
                        /\ cupGramsOf(name, food.FoodPortions) # Zero) =>
                      /\ response[k].Found
                      /\ response[k].CalculatedWeight = Zero
                      /\ response[k].Macros = ZeroMacros

C8_Witness ==
    \E k \in Served :
        /\ request[k].VolumeCups = Zero
        /\ response[k].Found
        /\ fetched[k][1].FoodNutrients # <<>>
        /\ response[k].Macros = ZeroMacros

(* C9: in a found result each macro field is amount * grams / 100 of a     *)
(* nutrient of the record with the field's code, zero when the record has  *)
(* no nutrient with that code; other codes change no field.                *)
C9_MacrosScaled ==
    \A k \in Served :
        response[k].Found =>
            LET nutrients == fetched[k][1].FoodNutrients
                grams == response[k].CalculatedWeight
            IN  \A code \in TrackedCodes :
                    IF CodeIdx(nutrients, code) = {}
                    THEN FieldOf(response[k].Macros, code) = Zero
                    ELSE \E j \in CodeIdx(nutrients, code) :
                            FieldOf(response[k].Macros, code) =
                                Per100(nutrients[j].Amount, grams)

C9_Witness ==
    \E k \in Served :
        /\ response[k].Found
        /\ response[k].CalculatedWeight # Zero
        /\ fetched[k][1].FoodNutrients =
               <<Nutrient("205", Rat(11, 10)), Nutrient("301", Rat(5, 1))>>
        /\ response[k].Macros.Carbs # Zero
        /\ response[k].Macros.Calories = Zero

(* C10: when a tracked code occurs more than once in the nutrient list,    *)
(* the field is computed from the last entry with that code.               *)
C10_LastNutrientWins ==
    \A k \in Served :
        response[k].Found =>
            LET nutrients == fetched[k][1].FoodNutrients
                grams == response[k].CalculatedWeight
            IN  \A code \in TrackedCodes :
                    Cardinality(CodeIdx(nutrients, code)) >= 2 =>
                        FieldOf(response[k].Macros, code) =
                            Per100(nutrients[MaxOf(CodeIdx(nutrients, code))].Amount, grams)

C10_Witness ==
    \E k \in Served :
        /\ response[k].Found
        /\ response[k].CalculatedWeight # Zero
        /\ fetched[k][1].FoodNutrients =
               <<Nutrient("208", Rat(89, 1)), Nutrient("208", Rat(155, 1))>>
        /\ response[k].Macros.Calories = Per100(Rat(155, 1), response[k].CalculatedWeight)
====
